---- MODULE Spec2Model ----
(***************************************************************************)
(* A model of src/extract_data.py (class BioCycData).                       *)
(*                                                                         *)
(*   Spec          one run of extract_data: extract_chems, extract_rxns     *)
(*                 and write_data, one step per line read or written; a     *)
(*                 call of impute_chem or impute_rxn is part of the step    *)
(*                 of the `//` line that makes it.                          *)
(*   SpecImpute    one call of impute_chem, one step per lookup or query.   *)
(*   SpecRxns      extract_rxns and impute_rxn over a chemical table that   *)
(*                 extract_chems has built.                                 *)
(*   SpecNorm      the name normalisation of load_chem_links and            *)
(*                 extract_chems, on character sequences.                   *)
(*   SpecRxnLinks  load_rxn_links on one line of reaction-links.dat, on     *)
(*                 character sequences.                                     *)
(*                                                                         *)
(* Strings whose content the code never inspects are opaque values; the     *)
(* Python value None is the distinguished value None, which is no string.   *)
(***************************************************************************)
EXTENDS Naturals, Sequences, FiniteSets

VARIABLES
    pc,          \* position of the run
    err,         \* the function an uncaught exception escaped from, or None
    chem_links,  \* self.chem_links: id -> [name, inchi, smiles]
    cur,         \* extract_chems' locals id, name, inchi, smiles
    imp,         \* SpecImpute: impute_chem's frame
    calls,       \* SpecImpute: the external calls impute_chem has issued
    chems,       \* self.chems, an insertion-ordered dict
    nChemRecs,   \* `//` lines of compounds.dat read so far
    uidSeen,     \* ids of the UNIQUE-ID lines of compounds.dat read so far
    closedIds,   \* ids in force at a `//` line of compounds.dat
    rcur,        \* extract_rxns' locals id, left, right, direction
    rxns,        \* self.rxns, an insertion-ordered dict
    rxnLinesLeft, \* lines of reactions.dat not read yet
    chemFile,    \* chemicals.txt: the lines written so far
    rxnFile,     \* reactions.txt: the lines written so far
    raw,         \* SpecNorm: the name before normalisation
    norm,        \* SpecNorm: the results of the successive normalisations
    rlLine,      \* SpecRxnLinks: the line of reaction-links.dat
    rxn_links    \* SpecRxnLinks: the table load_rxn_links builds

runVars == <<pc, err, chem_links, cur, imp, calls, chems, nChemRecs, uidSeen,
             closedIds, rcur, rxns, rxnLinesLeft, chemFile, rxnFile>>
normVars == <<raw, norm>>
linkVars == <<rlLine, rxn_links>>
vars == <<runVars, normVars, linkVars>>

(***************************************************************************)
(* Bounds                                                                   *)
(***************************************************************************)
\* `//` lines of compounds.dat; lines of reactions.dat in a whole run (Spec)
\* and when extract_rxns is taken alone (SpecRxns); characters of a name and
\* of a line of reaction-links.dat.
MaxChemRecs == 2
MaxRunRxnLines == 1
MaxRxnLines == 3
MaxNameLen == 4
MaxLineLen == 6

(***************************************************************************)
(* Values                                                                   *)
(***************************************************************************)
None == "None"

ChemIds == {"c1"}
LinkIds == {"c1"}
RxnIds == {"r1"}
\* An id of a LEFT/RIGHT line: a chemical of compounds.dat or a foreign one.
SideIds == ChemIds \cup {"ext"}

Fields == {"name", "inchi", "smiles"}

\* What a line of compounds.dat gives a field.
FileVal(f) == CASE f = "name" -> "rec-name"
                [] f = "inchi" -> "rec-inchi"
                [] f = "smiles" -> "rec-smiles"

LinkEntries == [name : {"", "link-name"}, inchi : {"", "link-inchi"},
                smiles : {"", "link-smiles"}]

\* biocyc.get(id): raises, returns None, or returns a compound.
DbAnswers ==
    {[kind |-> k, name |-> None, inchi |-> None] : k \in {"raise", "none"}}
    \cup [kind : {"hit"}, name : {None, "", "db-name"}, inchi : {None, "", "db-inchi"}]

PcVal(f) == CASE f = "name" -> "pc-name"
              [] f = "inchi" -> "pc-inchi"
              [] f = "smiles" -> "pc-smiles"

\* pcp.get_compounds(value, kind) followed by c[0].<attribute>: the service
\* raises, returns no candidate, returns something without the attribute, or
\* returns a candidate whose attribute is a string or None.
PcAnswers(f) ==
    {[kind |-> k, val |-> None] : k \in {"raise", "empty", "malformed"}}
    \cup {[kind |-> "hit", val |-> v] : v \in {None, PcVal(f)}}

StrVals == {"", "rec-name", "rec-inchi", "rec-smiles", "link-name", "link-inchi",
            "link-smiles", "db-name", "db-inchi", "pc-name", "pc-inchi", "pc-smiles"}
            \cup ChemIds \cup {"ext"}

(***************************************************************************)
(* Insertion-ordered dicts: a sequence of [key, val], keys distinct.        *)
(***************************************************************************)
Keys(d) == {d[i].key : i \in 1..Len(d)}

DictGet(d, k) == d[CHOOSE i \in 1..Len(d) : d[i].key = k].val

\* Mutant of DictSet: a list of pairs, every assignment appended.
DictSetAppend(d, k, v) == Append(d, [key |-> k, val |-> v])

\* d[k] = v: an existing key keeps its place.
DictSet(d, k, v) ==
    IF k \in Keys(d)
    THEN [i \in 1..Len(d) |-> IF d[i].key = k THEN [key |-> k, val |-> v] ELSE d[i]]
    ELSE Append(d, [key |-> k, val |-> v])

(***************************************************************************)
(* impute_chem, as functions of its frame and of the services' answers      *)
(***************************************************************************)
NoChem == [id |-> None, name |-> None, inchi |-> None, smiles |-> None]

NoFrame == [id |-> None, name |-> None, inchi |-> None, smiles |-> None,
            in_links |-> FALSE, entry |-> None, in_biocyc |-> FALSE,
            compound |-> None, args |-> NoChem]

\* The frame on entry: the parameters id, name, inchi, smiles.
Frame(args) == [NoFrame EXCEPT !.id = args.id, !.name = args.name,
                               !.inchi = args.inchi, !.smiles = args.smiles,
                               !.args = args]

\* Mutant of Caught: `except IndexError:`, which an error of the service
\* escapes.
CaughtIndexError(ans) == ans.kind # "raise"

\* The handlers of impute_chem are bare `except:` clauses: they catch whatever
\* the call raised.
Caught(ans) == TRUE

Hit(ans) == ans.kind = "hit"

\* try: entry = self.chem_links[id]; in_links = True
\* except: in_links = False
LookupLinks(fr, links) ==
    [fr EXCEPT !.in_links = fr.id \in DOMAIN links,
               !.entry = IF fr.id \in DOMAIN links THEN links[fr.id] ELSE None]

\* try: compound = biocyc.get(id); in_biocyc = not compound is None
\* except: in_biocyc = False
LookupBiocyc(fr, ans) ==
    IF ans.kind = "raise"
    THEN [fr EXCEPT !.in_biocyc = FALSE]
    ELSE [fr EXCEPT !.in_biocyc = Hit(ans),
                    !.compound = IF Hit(ans)
                                 THEN [name |-> ans.name, inchi |-> ans.inchi]
                                 ELSE None]

\* Mutant of Pass1Name: the database is asked before the link table.
Pass1NameBiocycFirst(name, in_links, entry, in_biocyc, compound) ==
    IF name = None
    THEN IF in_biocyc THEN compound.name
         ELSE IF in_links THEN entry.name
         ELSE name
    ELSE name

Pass1Name(name, in_links, entry, in_biocyc, compound) ==
    IF name = None
    THEN IF in_links THEN entry.name
         ELSE IF in_biocyc THEN compound.name
         ELSE name
    ELSE name

Pass1Inchi(inchi, in_links, entry, in_biocyc, compound) ==
    IF inchi = None
    THEN IF in_links /\ entry.inchi # "" THEN entry.inchi
         ELSE IF in_biocyc /\ compound.inchi # "" THEN compound.inchi
         ELSE inchi
    ELSE inchi

Pass1Smiles(smiles, in_links, entry) ==
    IF smiles = None /\ in_links THEN entry.smiles ELSE smiles

\* Pass 1: Use links and BioCyc
Pass1(fr) ==
    [fr EXCEPT
      !.name = Pass1Name(fr.name, fr.in_links, fr.entry, fr.in_biocyc, fr.compound),
      !.inchi = Pass1Inchi(fr.inchi, fr.in_links, fr.entry, fr.in_biocyc, fr.compound),
      !.smiles = Pass1Smiles(fr.smiles, fr.in_links, fr.entry)]

\* Mutant of FirstKey: structure_a is first searched by structure_b.
FirstKeySmilesFirst(f) == CASE f = "name" -> "inchi"
                            [] f = "inchi" -> "smiles"
                            [] f = "smiles" -> "name"

\* Pass 2: the key of the first query for a field, and of the second.
FirstKey(f) == CASE f = "name" -> "inchi"
                 [] f = "inchi" -> "name"
                 [] f = "smiles" -> "name"

SecondKey(f) == CASE f = "name" -> "smiles"
                  [] f = "inchi" -> "smiles"
                  [] f = "smiles" -> "inchi"

\* try: c = pcp.get_compounds(<first key>, ..); <field> = c[0].<attribute>
\* A failure leaves the field as it is and enters the handler.
QueryFirst(fr, f, ans) == IF Hit(ans) THEN [fr EXCEPT ![f] = ans.val] ELSE fr

\* except: try: c = pcp.get_compounds(<second key>, ..); <field> = c[0].<attribute>
\*         except: <field> = ''
QuerySecond(fr, f, ans) ==
    IF Hit(ans) THEN [fr EXCEPT ![f] = ans.val] ELSE [fr EXCEPT ![f] = ""]

\* if <field> is None: <the two queries>
Pass2Field(fr, f, a1, a2) ==
    IF fr[f] # None THEN fr
    ELSE IF Hit(a1) THEN QueryFirst(fr, f, a1)
    ELSE QuerySecond(QueryFirst(fr, f, a1), f, a2)

\* return {'name': name, 'inchi': inchi, 'smiles': smiles}
Result(fr) == [name |-> fr.name, inchi |-> fr.inchi, smiles |-> fr.smiles]

\* The frames pass 2 can leave for one field, over the service's answers.
Pass2Frames(frames, f) ==
    {Pass2Field(fr, f, a1, a2) : fr \in frames, a1 \in PcAnswers(f), a2 \in PcAnswers(f)}

\* The results impute_chem(id, name, inchi, smiles) can return, over the
\* answers of the database and of the structure search.
impute_chem(links, args) ==
    LET p1 == {Pass1(LookupBiocyc(LookupLinks(Frame(args), links), ans)) :
                 ans \in DbAnswers}
    IN {Result(fr) :
          fr \in Pass2Frames(Pass2Frames(Pass2Frames(p1, "name"), "inchi"), "smiles")}

\* The link tables, and the parameters extract_chems can pass to impute_chem.
LinkTables == UNION {[S -> LinkEntries] : S \in SUBSET LinkIds}

ChemArgs == [id : ChemIds \cup {None}, name : {None, FileVal("name")},
             inchi : {None, FileVal("inchi")}, smiles : {None, FileVal("smiles")}]

\* impute_chem, tabulated: the results for each link table and parameters.
ImputeTable ==
    {[links |-> links, args |-> args, results |-> impute_chem(links, args)] :
        links \in LinkTables, args \in ChemArgs}

ImputeResults(links, args) ==
    (CHOOSE t \in ImputeTable : t.links = links /\ t.args = args).results

(***************************************************************************)
(* extract_chems                                                            *)
(***************************************************************************)
\* A step of the run leaves the variables of the other specifications alone.
RunOnly == UNCHANGED <<imp, calls, raw, norm, rlLine, rxn_links>>

ChemsReadUnchanged ==
    /\ RunOnly
    /\ UNCHANGED <<err, chem_links, chems, closedIds, rcur, rxns,
                   rxnLinesLeft, chemFile, rxnFile>>

\* `UNIQUE-ID - <id>`
ChemLineUniqueId ==
    /\ pc = "extract_chems"
    /\ nChemRecs < MaxChemRecs
    /\ \E id \in ChemIds :
        /\ cur' = [cur EXCEPT !.id = id]
        /\ uidSeen' = uidSeen \cup {id}
    /\ nChemRecs' = nChemRecs
    /\ pc' = pc
    /\ ChemsReadUnchanged

\* `COMMON-NAME - ..`, `INCHI - ..`, `NON-STANDARD-INCHI - ..`, `SMILES - ..`:
\* the last occurrence wins.
ChemLineField ==
    /\ pc = "extract_chems"
    /\ nChemRecs < MaxChemRecs
    /\ \E f \in Fields : cur' = [cur EXCEPT ![f] = FileVal(f)]
    /\ nChemRecs' = nChemRecs
    /\ pc' = pc
    /\ UNCHANGED uidSeen
    /\ ChemsReadUnchanged

\* A line with any other key is ignored.
ChemLineOther ==
    /\ pc = "extract_chems"
    /\ nChemRecs < MaxChemRecs
    /\ nChemRecs' = nChemRecs
    /\ UNCHANGED <<pc, cur, uidSeen>>
    /\ ChemsReadUnchanged

\* A line starting with `//`: chems[id] = self.impute_chem(id, name, inchi,
\* smiles), and the locals are reset.
ChemLineTerminator ==
    /\ pc = "extract_chems"
    /\ nChemRecs < MaxChemRecs
    /\ nChemRecs' = nChemRecs + 1
    /\ \E r \in ImputeResults(chem_links, cur) : chems' = DictSet(chems, cur.id, r)
    /\ closedIds' = IF cur.id = None THEN closedIds ELSE closedIds \cup {cur.id}
    /\ cur' = NoChem
    /\ pc' = pc
    /\ RunOnly
    /\ UNCHANGED <<err, chem_links, uidSeen, rcur, rxns, rxnLinesLeft, chemFile, rxnFile>>

\* readline() returns '': the loop ends, whatever the locals hold.
ChemEOF ==
    /\ pc = "extract_chems"
    /\ pc' = "extract_rxns"
    /\ cur' = NoChem
    /\ RunOnly
    /\ UNCHANGED <<err, chem_links, chems, nChemRecs, uidSeen,
                   closedIds, rcur, rxns, rxnLinesLeft, chemFile, rxnFile>>

\* A line that is exactly `UNIQUE-ID`, `COMMON-NAME`, .. (the last line of a
\* file, without its newline): entries[1] raises IndexError.
ChemLineMalformed ==
    /\ pc = "extract_chems"
    /\ nChemRecs < MaxChemRecs
    /\ pc' = "failed"
    /\ err' = "extract_chems"
    /\ RunOnly
    /\ UNCHANGED <<chem_links, cur, chems, nChemRecs, uidSeen, closedIds, rcur,
                   rxns, rxnLinesLeft, chemFile, rxnFile>>

(***************************************************************************)
(* extract_rxns and impute_rxn                                              *)
(***************************************************************************)
NoRxn == [id |-> None, left |-> <<>>, right |-> <<>>, direction |-> None]

DirTexts == {"REVERSIBLE", "PHYSIOL-LEFT-TO-RIGHT", "RIGHT-TO-LEFT", "UNKNOWN"}

\* The direction codes 0, 1, 2 and -1, written as strings.
Direction(dir) == CASE dir = "REVERSIBLE" -> "0"
                    [] dir = "PHYSIOL-LEFT-TO-RIGHT" -> "1"
                    [] dir = "RIGHT-TO-LEFT" -> "2"
                    [] OTHER -> "-1"

\* Mutant of DisplayNames: self.chems.get(chem_id), None for an unknown id.
DisplayNamesGet(table, ids) ==
    [i \in 1..Len(ids) |->
        IF ids[i] \in Keys(table) THEN DictGet(table, ids[i]).name ELSE None]

\* for chem_id in ids: the chemical's name if chem_id in self.chems, else chem_id
DisplayNames(table, ids) ==
    [i \in 1..Len(ids) |->
        IF ids[i] \in Keys(table) THEN DictGet(table, ids[i]).name ELSE ids[i]]

impute_rxn(table, id, left, right, direction) ==
    [reactant_names |-> DisplayNames(table, left),
     product_names |-> DisplayNames(table, right),
     reactant_ids |-> left,
     product_ids |-> right,
     direction |-> direction]

RxnsReadUnchanged ==
    /\ RunOnly
    /\ UNCHANGED <<err, chem_links, cur, chems, nChemRecs, uidSeen, closedIds,
                   rxns, chemFile, rxnFile>>

\* `UNIQUE-ID - <id>`
RxnLineUniqueId ==
    /\ pc = "extract_rxns"
    /\ rxnLinesLeft > 0
    /\ \E id \in RxnIds : rcur' = [rcur EXCEPT !.id = id]
    /\ rxnLinesLeft' = rxnLinesLeft - 1
    /\ pc' = pc
    /\ RxnsReadUnchanged

\* `LEFT - <chemical id>`
RxnLineLeft ==
    /\ pc = "extract_rxns"
    /\ rxnLinesLeft > 0
    /\ \E c \in SideIds : rcur' = [rcur EXCEPT !.left = Append(rcur.left, c)]
    /\ rxnLinesLeft' = rxnLinesLeft - 1
    /\ pc' = pc
    /\ RxnsReadUnchanged

\* `RIGHT - <chemical id>`
RxnLineRight ==
    /\ pc = "extract_rxns"
    /\ rxnLinesLeft > 0
    /\ \E c \in SideIds : rcur' = [rcur EXCEPT !.right = Append(rcur.right, c)]
    /\ rxnLinesLeft' = rxnLinesLeft - 1
    /\ pc' = pc
    /\ RxnsReadUnchanged

\* `REACTION-DIRECTION - <text>`
RxnLineDirection ==
    /\ pc = "extract_rxns"
    /\ rxnLinesLeft > 0
    /\ \E dir \in DirTexts : rcur' = [rcur EXCEPT !.direction = Direction(dir)]
    /\ rxnLinesLeft' = rxnLinesLeft - 1
    /\ pc' = pc
    /\ RxnsReadUnchanged

\* A line with any other key is ignored.
RxnLineOther ==
    /\ pc = "extract_rxns"
    /\ rxnLinesLeft > 0
    /\ rxnLinesLeft' = rxnLinesLeft - 1
    /\ UNCHANGED <<pc, rcur>>
    /\ RxnsReadUnchanged

\* A line whose stripped text is a key, without ` - `: entries[1] raises
\* IndexError.
RxnLineMalformed ==
    /\ pc = "extract_rxns"
    /\ rxnLinesLeft > 0
    /\ pc' = "failed"
    /\ err' = "extract_rxns"
    /\ RunOnly
    /\ UNCHANGED <<chem_links, cur, chems, nChemRecs, uidSeen, closedIds, rcur,
                   rxns, rxnLinesLeft, chemFile, rxnFile>>

\* A line starting with `//`: rxns[id] = self.impute_rxn(id, left, right,
\* direction), and the locals are reset.
RxnLineTerminator ==
    /\ pc = "extract_rxns"
    /\ rxnLinesLeft > 0
    /\ rxnLinesLeft' = rxnLinesLeft - 1
    /\ rxns' = DictSet(rxns, rcur.id,
                       impute_rxn(chems, rcur.id, rcur.left, rcur.right, rcur.direction))
    /\ rcur' = NoRxn
    /\ pc' = pc
    /\ RunOnly
    /\ UNCHANGED <<err, chem_links, cur, chems, nChemRecs, uidSeen, closedIds,
                   chemFile, rxnFile>>

\* readline() returns '': extract_rxns returns and write_data starts.
RxnEOF ==
    /\ pc = "extract_rxns"
    /\ rxnLinesLeft = 0
    /\ pc' = "write_chems_open"
    /\ rcur' = NoRxn
    /\ RunOnly
    /\ UNCHANGED <<err, chem_links, cur, chems, nChemRecs, uidSeen, closedIds,
                   rxns, rxnLinesLeft, chemFile, rxnFile>>

(***************************************************************************)
(* write_data                                                               *)
(***************************************************************************)
ChemHeader == <<"id", "name", "inchi", "smiles">>

RxnHeader == [equation |-> "reaction", reactants |-> "reactants", products |-> "products"]

WriteUnchanged ==
    /\ RunOnly
    /\ UNCHANGED <<chem_links, cur, chems, nChemRecs, uidSeen, closedIds, rcur,
                   rxns, rxnLinesLeft>>

\* str + value raises TypeError when value is None.
CanConcat(v) == v # None

\* line = id; line += '\t' + values['name']; the inchi and smiles columns are
\* added when they are not None.
ChemRow(id, values) ==
    <<id, values.name>>
    \o (IF values.inchi # None THEN <<values.inchi>> ELSE <<>>)
    \o (IF values.smiles # None THEN <<values.smiles>> ELSE <<>>)

\* " + ".join(names) raises TypeError when an item is None.
CanJoin(items) == \A i \in 1..Len(items) : items[i] # None

Arrow(direction) == IF direction = "0" THEN " <=> "
                    ELSE IF direction = "1" THEN " -> "
                    ELSE " <- "

RxnRow(values) ==
    [equation |-> [lhs |-> values.reactant_names, arrow |-> Arrow(values.direction),
                   rhs |-> values.product_names],
     reactants |-> values.reactant_ids,
     products |-> values.product_ids]

\* os.mkdir (an error is passed); chemicals.txt is opened and gets its header.
WriteChemsHeader ==
    /\ pc = "write_chems_open"
    /\ chemFile' = <<ChemHeader>>
    /\ pc' = "write_chems"
    /\ UNCHANGED <<err, rxnFile>>
    /\ WriteUnchanged

\* One turn of `for id in self.chems`: the line is built, then written.
WriteChemRow ==
    /\ pc = "write_chems"
    /\ Len(chemFile) <= Len(chems)
    /\ LET e == chems[Len(chemFile)]
       IN IF CanConcat(e.val.name) /\ CanConcat(e.key)
          THEN /\ chemFile' = Append(chemFile, ChemRow(e.key, e.val))
               /\ UNCHANGED <<pc, err>>
          ELSE /\ pc' = "failed"
               /\ err' = "write_data"
               /\ UNCHANGED chemFile
    /\ UNCHANGED rxnFile
    /\ WriteUnchanged

\* chemicals.txt is closed; reactions.txt is opened and gets its header.
WriteRxnsHeader ==
    /\ pc = "write_chems"
    /\ Len(chemFile) = Len(chems) + 1
    /\ rxnFile' = <<RxnHeader>>
    /\ pc' = "write_rxns"
    /\ UNCHANGED <<err, chemFile>>
    /\ WriteUnchanged

\* One turn of `for id in self.rxns`.
WriteRxnRow ==
    /\ pc = "write_rxns"
    /\ Len(rxnFile) <= Len(rxns)
    /\ LET values == rxns[Len(rxnFile)].val
       IN IF CanJoin(values.reactant_names) /\ CanJoin(values.product_names)
          THEN /\ rxnFile' = Append(rxnFile, RxnRow(values))
               /\ UNCHANGED <<pc, err>>
          ELSE /\ pc' = "failed"
               /\ err' = "write_data"
               /\ UNCHANGED rxnFile
    /\ UNCHANGED chemFile
    /\ WriteUnchanged

\* reactions.txt is closed: extract_data returns.
WriteDone ==
    /\ pc = "write_rxns"
    /\ Len(rxnFile) = Len(rxns) + 1
    /\ pc' = "done"
    /\ UNCHANGED <<err, chemFile, rxnFile>>
    /\ WriteUnchanged

(***************************************************************************)
(* impute_chem, one step per lookup or query (SpecImpute)                   *)
(***************************************************************************)
ImputeUnchanged ==
    UNCHANGED <<chem_links, cur, nChemRecs, uidSeen, closedIds, rcur, rxns,
                rxnLinesLeft, chemFile, rxnFile, raw, norm, rlLine, rxn_links>>

\* A call: the service, the kind of key and the key, what the caller wants
\* of the answer, and how the call ended.
Call(svc, by, arg, want, res) ==
    [svc |-> svc, by |-> by, arg |-> arg, want |-> want, res |-> res]

P2Pc(f) == CASE f = "name" -> "p2_name"
             [] f = "inchi" -> "p2_inchi"
             [] f = "smiles" -> "p2_smiles"

P2HandlerPc(f) == CASE f = "name" -> "p2_name_except"
                    [] f = "inchi" -> "p2_inchi_except"
                    [] f = "smiles" -> "p2_smiles_except"

P2NextPc(f) == CASE f = "name" -> "p2_inchi"
                 [] f = "inchi" -> "p2_smiles"
                 [] f = "smiles" -> "imp_return"

\* An exception no handler catches leaves impute_chem.
ImputeRaises ==
    /\ pc' = "failed"
    /\ err' = "impute_chem"
    /\ UNCHANGED <<imp, chems>>

ImputeLinks ==
    /\ pc = "imp_links"
    /\ imp' = LookupLinks(imp, chem_links)
    /\ pc' = "imp_biocyc"
    /\ UNCHANGED <<err, calls, chems>>
    /\ ImputeUnchanged

ImputeBiocyc ==
    /\ pc = "imp_biocyc"
    /\ \E ans \in DbAnswers :
        /\ calls' = Append(calls, Call("biocyc", "id", imp.id, "compound", ans.kind))
        /\ IF ans.kind = "raise" /\ ~Caught(ans)
           THEN ImputeRaises
           ELSE /\ imp' = LookupBiocyc(imp, ans)
                /\ pc' = "imp_pass1"
                /\ UNCHANGED <<err, chems>>
    /\ ImputeUnchanged

ImputePass1 ==
    /\ pc = "imp_pass1"
    /\ imp' = Pass1(imp)
    /\ pc' = "p2_name"
    /\ UNCHANGED <<err, calls, chems>>
    /\ ImputeUnchanged

\* `if <field> is None:` is false.
Pass2Skip(f) ==
    /\ pc = P2Pc(f)
    /\ imp[f] # None
    /\ pc' = P2NextPc(f)
    /\ UNCHANGED <<err, imp, calls, chems>>
    /\ ImputeUnchanged

\* The first query for a field.
Pass2First(f) ==
    /\ pc = P2Pc(f)
    /\ imp[f] = None
    /\ \E ans \in PcAnswers(f) :
        /\ calls' = Append(calls, Call("pubchem", FirstKey(f), imp[FirstKey(f)], f, ans.kind))
        /\ IF ~Hit(ans) /\ ~Caught(ans)
           THEN ImputeRaises
           ELSE /\ imp' = QueryFirst(imp, f, ans)
                /\ pc' = IF Hit(ans) THEN P2NextPc(f) ELSE P2HandlerPc(f)
                /\ UNCHANGED <<err, chems>>
    /\ ImputeUnchanged

\* The second query for a field, in the handler of the first.
Pass2Second(f) ==
    /\ pc = P2HandlerPc(f)
    /\ \E ans \in PcAnswers(f) :
        /\ calls' = Append(calls, Call("pubchem", SecondKey(f), imp[SecondKey(f)], f, ans.kind))
        /\ IF ~Hit(ans) /\ ~Caught(ans)
           THEN ImputeRaises
           ELSE /\ imp' = QuerySecond(imp, f, ans)
                /\ pc' = P2NextPc(f)
                /\ UNCHANGED <<err, chems>>
    /\ ImputeUnchanged

\* return {..}, and the caller's chems[id] = <the result>
ImputeReturn ==
    /\ pc = "imp_return"
    /\ chems' = DictSet(chems, imp.id, Result(imp))
    /\ pc' = "imp_done"
    /\ UNCHANGED <<err, imp, calls>>
    /\ ImputeUnchanged

(***************************************************************************)
(* Name normalisation (SpecNorm)                                            *)
(***************************************************************************)
\* The strings of at most n characters of A.
Strs(A, n) == UNION {[1..k -> A] : k \in 0..n}

NameChars == {"a", "n", " ", "<", ">", "&", "x"}

ExcludeChars == <<"&", ";", "[", "]">>

\* Mutant of Replace: s.replace(ch, '', 1), the first occurrence only.
ReplaceFirst(s, ch) ==
    IF \A i \in 1..Len(s) : s[i] # ch THEN s
    ELSE LET i == CHOOSE k \in 1..Len(s) : s[k] = ch /\ \A m \in 1..(k - 1) : s[m] # ch
         IN SubSeq(s, 1, i - 1) \o SubSeq(s, i + 1, Len(s))

\* s.replace(ch, '')
Replace(s, ch) == SelectSeq(s, LAMBDA c : c # ch)

\* for char in exclude_chars: name = name.replace(char, '')
RECURSIVE RemoveChars(_, _)
RemoveChars(s, chs) ==
    IF chs = <<>> THEN s ELSE RemoveChars(Replace(s, Head(chs)), Tail(chs))

\* Where the match of <[^<>]*> that starts at s[1] = "<" ends, or 0: the
\* first bracket after s[1] has to be a ">".
TagEnd(s) ==
    LET brackets == {j \in 2..Len(s) : s[j] \in {"<", ">"}}
    IN IF brackets = {} THEN 0
       ELSE LET j == CHOOSE k \in brackets : \A m \in brackets : k <= m
            IN IF s[j] = ">" THEN j ELSE 0

\* re.sub('<[^<>]*>', '', s): the matches are taken from left to right, and
\* the text a removal brings together is not looked at again.
RECURSIVE SubTags(_)
SubTags(s) ==
    IF s = <<>> THEN <<>>
    ELSE IF Head(s) = "<" /\ TagEnd(s) > 0
         THEN SubTags(SubSeq(s, TagEnd(s) + 1, Len(s)))
         ELSE <<Head(s)>> \o SubTags(Tail(s))

StartsWith(s, prefix) ==
    Len(s) >= Len(prefix) /\ SubSeq(s, 1, Len(prefix)) = prefix

\* if name.startswith('a '): name = name[2:]
\* elif name.startswith('an '): name = name[3:]
DropArticle(s) ==
    IF StartsWith(s, <<"a", " ">>) THEN SubSeq(s, 3, Len(s))
    ELSE IF StartsWith(s, <<"a", "n", " ">>) THEN SubSeq(s, 4, Len(s))
    ELSE s

NormalizeName(s) == DropArticle(SubTags(RemoveChars(s, ExcludeChars)))

\* The normalisation is applied to the last result.
Normalize ==
    /\ pc = "normalize"
    /\ Len(norm) < 2
    /\ norm' = Append(norm, NormalizeName(IF norm = <<>> THEN raw ELSE norm[Len(norm)]))
    /\ UNCHANGED <<runVars, raw, linkVars>>

(***************************************************************************)
(* load_rxn_links, on one line (SpecRxnLinks)                               *)
(***************************************************************************)
\* "x" stands for any character that is neither white space nor `#`.
LineChars == {"x", "\t", " ", "#"}

Whitespace == {" ", "\t", "\n"}

\* s.split('\t')
RECURSIVE Split(_)
Split(s) ==
    IF \A i \in 1..Len(s) : s[i] # "\t" THEN <<s>>
    ELSE LET i == CHOOSE k \in 1..Len(s) :
                      s[k] = "\t" /\ \A m \in 1..(k - 1) : s[m] # "\t"
         IN <<SubSeq(s, 1, i - 1)>> \o Split(SubSeq(s, i + 1, Len(s)))

\* s.strip()
RECURSIVE Strip(_)
Strip(s) ==
    IF s = <<>> THEN s
    ELSE IF s[1] \in Whitespace THEN Strip(Tail(s))
    ELSE IF s[Len(s)] \in Whitespace THEN Strip(SubSeq(s, 1, Len(s) - 1))
    ELSE s

\* s.isspace(): false for the empty string.
IsSpace(s) == s # <<>> /\ \A i \in 1..Len(s) : s[i] \in Whitespace

\* ec[3:]
TagLen == 3

StripTag(ec) == SubSeq(ec, TagLen + 1, Len(ec))

\* One turn of `for line in f`.
LoadRxnLine ==
    /\ pc = "load_rxn_links"
    /\ LET entries == Split(rlLine)
       IN IF StartsWith(rlLine, <<"#">>)
          THEN /\ pc' = "loaded"
               /\ UNCHANGED <<err, rxn_links>>
          ELSE IF Len(entries) < 2
          THEN /\ pc' = "failed"
               /\ err' = "load_rxn_links"
               /\ UNCHANGED rxn_links
          ELSE IF IsSpace(entries[2])
          THEN /\ pc' = "loaded"
               /\ UNCHANGED <<err, rxn_links>>
          ELSE /\ rxn_links' = DictSet(rxn_links, Strip(entries[1]),
                                       [i \in 1..(Len(entries) - 1) |->
                                           Strip(StripTag(entries[i + 1]))])
               /\ pc' = "loaded"
               /\ UNCHANGED err
    /\ UNCHANGED <<chem_links, cur, imp, calls, chems, nChemRecs, uidSeen, closedIds,
                   rcur, rxns, rxnLinesLeft, chemFile, rxnFile, raw, norm, rlLine>>

(***************************************************************************)
(* Specifications                                                           *)
(***************************************************************************)
\* Spec: the link tables of a whole run have, for an id, either every column
\* of compound-links.dat or the id alone.
RunLinkTables ==
    {t \in LinkTables :
        \A id \in DOMAIN t : (t[id].name = "") = (t[id].inchi = "")
                              /\ (t[id].name = "") = (t[id].smiles = "")}

Init ==
    /\ pc = "extract_chems"
    /\ err = None
    /\ chem_links \in RunLinkTables
    /\ cur = NoChem
    /\ imp = NoFrame
    /\ calls = <<>>
    /\ chems = <<>>
    /\ nChemRecs = 0
    /\ uidSeen = {}
    /\ closedIds = {}
    /\ rcur = NoRxn
    /\ rxns = <<>>
    /\ rxnLinesLeft \in 0..MaxRunRxnLines
    /\ chemFile = <<>>
    /\ rxnFile = <<>>
    /\ raw = <<>>
    /\ norm = <<>>
    /\ rlLine = <<>>
    /\ rxn_links = <<>>

Next ==
    \/ ChemLineUniqueId
    \/ ChemLineField
    \/ ChemLineOther
    \/ ChemLineTerminator
    \/ ChemLineMalformed
    \/ ChemEOF
    \/ RxnLineUniqueId
    \/ RxnLineLeft
    \/ RxnLineRight
    \/ RxnLineDirection
    \/ RxnLineOther
    \/ RxnLineMalformed
    \/ RxnLineTerminator
    \/ RxnEOF
    \/ WriteChemsHeader
    \/ WriteChemRow
    \/ WriteRxnsHeader
    \/ WriteRxnRow
    \/ WriteDone

Spec == Init /\ [][Next]_vars

\* SpecImpute: impute_chem is entered with any parameters.
InitImpute ==
    /\ pc = "imp_links"
    /\ err = None
    /\ chem_links \in LinkTables
    /\ cur \in ChemArgs
    /\ imp = Frame(cur)
    /\ calls = <<>>
    /\ chems = <<>>
    /\ nChemRecs = 0
    /\ uidSeen = {}
    /\ closedIds = {}
    /\ rcur = NoRxn
    /\ rxns = <<>>
    /\ rxnLinesLeft = 0
    /\ chemFile = <<>>
    /\ rxnFile = <<>>
    /\ raw = <<>>
    /\ norm = <<>>
    /\ rlLine = <<>>
    /\ rxn_links = <<>>

NextImpute ==
    \/ ImputeLinks
    \/ ImputeBiocyc
    \/ ImputePass1
    \/ \E f \in Fields : Pass2Skip(f)
    \/ \E f \in Fields : Pass2First(f)
    \/ \E f \in Fields : Pass2Second(f)
    \/ ImputeReturn

SpecImpute == InitImpute /\ [][NextImpute]_vars

\* SpecRxns: extract_rxns starts over the table one record of compounds.dat
\* leaves.
ChemTables ==
    UNION {{DictSet(<<>>, args.id, r) : r \in impute_chem(links, args)} :
             links \in LinkTables,
             args \in {a \in ChemArgs : a.inchi = None /\ a.smiles = None}}

InitRxns ==
    /\ pc = "extract_rxns"
    /\ err = None
    /\ chem_links = <<>>
    /\ cur = NoChem
    /\ imp = NoFrame
    /\ calls = <<>>
    /\ chems \in ChemTables
    /\ nChemRecs = 1
    /\ uidSeen = {}
    /\ closedIds = {}
    /\ rcur = NoRxn
    /\ rxns = <<>>
    /\ rxnLinesLeft \in 0..MaxRxnLines
    /\ chemFile = <<>>
    /\ rxnFile = <<>>
    /\ raw = <<>>
    /\ norm = <<>>
    /\ rlLine = <<>>
    /\ rxn_links = <<>>

NextRxns ==
    \/ RxnLineUniqueId
    \/ RxnLineLeft
    \/ RxnLineRight
    \/ RxnLineDirection
    \/ RxnLineOther
    \/ RxnLineMalformed
    \/ RxnLineTerminator
    \/ RxnEOF

SpecRxns == InitRxns /\ [][NextRxns]_vars

\* SpecNorm: any name of at most MaxNameLen characters.
InitNorm ==
    /\ pc = "normalize"
    /\ err = None
    /\ chem_links = <<>>
    /\ cur = NoChem
    /\ imp = NoFrame
    /\ calls = <<>>
    /\ chems = <<>>
    /\ nChemRecs = 0
    /\ uidSeen = {}
    /\ closedIds = {}
    /\ rcur = NoRxn
    /\ rxns = <<>>
    /\ rxnLinesLeft = 0
    /\ chemFile = <<>>
    /\ rxnFile = <<>>
    /\ raw \in Strs(NameChars, MaxNameLen)
    /\ norm = <<>>
    /\ rlLine = <<>>
    /\ rxn_links = <<>>

SpecNorm == InitNorm /\ [][Normalize]_vars

\* SpecRxnLinks: any line of at most MaxLineLen characters, with or without
\* its newline.
RxnLinkLines ==
    {body \o nl : body \in Strs(LineChars, MaxLineLen), nl \in {<<>>, <<"\n">>}}

InitRxnLinks ==
    /\ pc = "load_rxn_links"
    /\ err = None
    /\ chem_links = <<>>
    /\ cur = NoChem
    /\ imp = NoFrame
    /\ calls = <<>>
    /\ chems = <<>>
    /\ nChemRecs = 0
    /\ uidSeen = {}
    /\ closedIds = {}
    /\ rcur = NoRxn
    /\ rxns = <<>>
    /\ rxnLinesLeft = 0
    /\ chemFile = <<>>
    /\ rxnFile = <<>>
    /\ raw = <<>>
    /\ norm = <<>>
    /\ rlLine \in RxnLinkLines
    /\ rxn_links = <<>>

SpecRxnLinks == InitRxnLinks /\ [][LoadRxnLine]_vars

(***************************************************************************)
(* Properties                                                               *)
(***************************************************************************)
\* The two models of impute_chem agree: what the stepped call returns is one
\* of the results of impute_chem.
StepwiseAgrees ==
    pc = "imp_done" => Result(imp) \in impute_chem(chem_links, imp.args)

IsString(v) == v \in StrVals

\* C1: every record of the chemical table has a string, possibly empty, for
\* its name, inchi and smiles: none of them is None.
C1_ResolvedFieldsAreStrings ==
    \A i \in 1..Len(chems) :
        /\ IsString(chems[i].val.name)
        /\ IsString(chems[i].val.inchi)
        /\ IsString(chems[i].val.smiles)

\* A record with a name and a smiles, for an id nothing else knows: the search
\* by name found a candidate whose inchi is None, the record keeps None, and
\* the line of chemicals.txt has the smiles in the place of the inchi.
C1_Witness ==
    /\ pc = "done"
    /\ chem_links = <<>>
    /\ Len(chems) = 1 /\ chems[1].key = "c1"
    /\ chems[1].val = [name |-> "rec-name", inchi |-> None, smiles |-> "rec-smiles"]
    /\ chemFile = <<ChemHeader, <<"c1", "rec-name", "rec-smiles">> >>

\* impute_chem was called with no name, inchi or smiles for an id the link
\* table has with a non-empty name.
C2_Case ==
    /\ imp.args.name = None /\ imp.args.inchi = None /\ imp.args.smiles = None
    /\ imp.id \in DOMAIN chem_links
    /\ chem_links[imp.id].name # ""

\* C2 as stated: in that case pass 1 leaves the link table's name, and no call
\* to the database or to the structure search has been issued by then.
C2_NameResolvedWithoutAnyCall ==
    (pc = "p2_name" /\ C2_Case) =>
        /\ imp.name = chem_links[imp.id].name
        /\ calls = <<>>

\* C2 amended: in that case the name is the link table's from pass 1 on,
\* whatever the database answered, and when pass 1 ends the only call issued
\* is the one biocyc.get(id) that precedes pass 1: no structure search.
C2_NameFromLinksBeforeAnySearch ==
    (pc \notin {"imp_links", "imp_biocyc", "imp_pass1"} /\ C2_Case) =>
        /\ imp.name = chem_links[imp.id].name
        /\ pc = "p2_name" =>
            /\ Len(calls) = 1
            /\ calls[1].svc = "biocyc" /\ calls[1].arg = imp.id

C2_Witness ==
    /\ C2_Case
    /\ pc = "p2_name"
    /\ imp.in_biocyc /\ imp.compound.name = "db-name"
    /\ imp.name = "link-name"

\* C3: a run that fails has written nothing to chemicals.txt or reactions.txt.
C3_FailsBeforeAnyWrite ==
    pc = "failed" => (chemFile = <<>> /\ rxnFile = <<>>)

\* A record without a UNIQUE-ID line was closed: write_data failed on its line,
\* after the header of chemicals.txt was written.
C3_Witness ==
    /\ pc = "failed" /\ err = "write_data"
    /\ Len(chems) = 1 /\ chems[1].key = None
    /\ chemFile = <<ChemHeader>>

\* The lines of chemicals.txt whose first column is id.
RowsOf(id) == {i \in 1..Len(chemFile) : chemFile[i][1] = id}

\* C4 as stated: after a complete run every id of a UNIQUE-ID line of
\* compounds.dat is the first column of exactly one line of chemicals.txt.
C4_EveryIdHasOneRow ==
    pc = "done" => \A id \in uidSeen : Cardinality(RowsOf(id)) = 1

\* C4 amended: the ids in force at a `//` line are, unchanged, the keys of the
\* chemical table; no two lines of chemicals.txt have the same first column,
\* and each line after the header is for one of these ids; once chemicals.txt
\* is complete each of these ids has exactly one line, and an id that was
\* only in a record without its `//` line has none.
C4_ClosedIdsHaveOneRow ==
    /\ Keys(chems) \ {None} = closedIds
    /\ \A i, j \in 1..Len(chemFile) : chemFile[i][1] = chemFile[j][1] => i = j
    /\ \A i \in 2..Len(chemFile) : chemFile[i][1] \in closedIds
    /\ pc \in {"write_rxns", "done"} =>
        /\ \A id \in closedIds : Cardinality(RowsOf(id)) = 1
        /\ \A id \in uidSeen \ closedIds : RowsOf(id) = {}

\* Two `//` lines closed a record of the same id, and the run is complete.
C4_Witness ==
    /\ pc = "done"
    /\ nChemRecs = 2
    /\ closedIds = {"c1"}
    /\ Len(chems) = 1
    /\ Cardinality(RowsOf("c1")) = 1

PubchemCalls == SelectSeq(calls, LAMBDA c : c.svc = "pubchem")

\* C5: impute_chem never lets an exception escape, and a lookup or query that
\* fails only moves it on: a database that raises or has nothing leaves
\* in_biocyc false, a failed first query for a field is followed by the second
\* query for it, and a failed second query leaves the field empty.
C5_FailuresMoveOn ==
    /\ pc # "failed" /\ err = None
    /\ (pc \notin {"imp_links"} /\ imp.id \notin DOMAIN chem_links) => ~imp.in_links
    /\ (Len(calls) >= 1 /\ calls[1].res # "hit") => ~imp.in_biocyc
    /\ \A i \in 1..Len(calls) :
        (calls[i].svc = "pubchem" /\ calls[i].res # "hit") =>
            LET f == calls[i].want
            IN IF calls[i].by = FirstKey(f)
               THEN IF i = Len(calls)
                    THEN pc = P2HandlerPc(f)
                    ELSE /\ calls[i + 1].svc = "pubchem"
                         /\ calls[i + 1].want = f
                         /\ calls[i + 1].by = SecondKey(f)
               ELSE imp[f] = ""
    /\ pc = "imp_done" => (Len(chems) = 1 /\ chems[1].val = Result(imp))

\* Every lookup and query failed, in each of the ways, and impute_chem
\* returned the empty record.
C5_Witness ==
    /\ pc = "imp_done"
    /\ ~imp.in_links
    /\ Len(calls) = 7
    /\ \A i \in 1..7 : calls[i].res # "hit"
    /\ {calls[i].res : i \in 1..7} = {"raise", "empty", "malformed"}
    /\ chems[1].val = [name |-> "", inchi |-> "", smiles |-> ""]

NonEmpty(v) == v # None /\ v # ""

\* The first non-empty value of a sequence of values, or None.
RECURSIVE FirstNonEmpty(_)
FirstNonEmpty(vs) ==
    IF vs = <<>> THEN None
    ELSE IF NonEmpty(Head(vs)) THEN Head(vs)
    ELSE FirstNonEmpty(Tail(vs))

\* What the link table, then the database, have for a field of the id.
SourceValues(f) ==
    (IF imp.in_links THEN <<imp.entry[f]>> ELSE <<>>)
    \o (IF imp.in_biocyc /\ f # "smiles" THEN <<imp.compound[f]>> ELSE <<>>)

\* C9: when pass 2 starts, a field the record did not have is the first
\* non-empty value the link table, then the database, have for it, and is
\* still None when neither has one.
C9_FirstNonEmptySource ==
    pc = "p2_name" =>
        \A f \in Fields : imp.args[f] = None => imp[f] = FirstNonEmpty(SourceValues(f))

\* The link table has the id with an empty name and the database has a name:
\* pass 1 left the empty name.
C9_Witness ==
    /\ pc = "p2_name"
    /\ imp.args.name = None
    /\ imp.in_links /\ imp.entry.name = ""
    /\ imp.in_biocyc /\ imp.compound.name = "db-name"
    /\ imp.name = ""

\* The frame as pass 1 left it (pass 1 reads the parameters and what the two
\* lookups found).
AfterPass1 ==
    Pass1([imp EXCEPT !.name = imp.args.name, !.inchi = imp.args.inchi,
                      !.smiles = imp.args.smiles])

\* Pass 1 left structure_a absent and a name known.
C10_Case ==
    /\ pc \notin {"imp_links", "imp_biocyc", "imp_pass1", "p2_name", "p2_name_except"}
    /\ AfterPass1.inchi = None
    /\ AfterPass1.name # None

\* C10: in that case the first structure search is by the name; a search by
\* structure_b comes right after a search by name that found nothing; and
\* structure_a is the empty string only after both searches for it failed.
C10_NameQueriedBeforeSmiles ==
    C10_Case =>
        LET q == PubchemCalls
        IN /\ pc = "p2_inchi" => q = <<>>
           /\ q # <<>> => (q[1].by = "name" /\ q[1].arg = AfterPass1.name /\ q[1].want = "inchi")
           /\ \A i \in 1..Len(q) :
                q[i].by = "smiles" =>
                    /\ i > 1
                    /\ q[i - 1].by = "name" /\ q[i - 1].res # "hit"
                    /\ q[i].want = "inchi"
           /\ (pc # "p2_inchi" /\ imp.inchi = "") =>
                /\ Len(q) >= 2
                /\ q[1].by = "name" /\ q[1].res # "hit"
                /\ q[2].by = "smiles" /\ q[2].res # "hit"

\* The search by name failed, the search by structure_b was made and failed,
\* and structure_a is the empty string.
C10_Witness ==
    /\ C10_Case
    /\ pc = "imp_done"
    /\ AfterPass1.name = "rec-name"
    /\ AfterPass1.smiles = "link-smiles"
    /\ imp.inchi = ""
    /\ PubchemCalls[2].by = "smiles" /\ PubchemCalls[2].arg = "link-smiles"

\* s has a substring <...> with no bracket inside.
HasTag(s) ==
    \E i, j \in 1..Len(s) :
        /\ i < j
        /\ s[i] = "<" /\ s[j] = ">"
        /\ \A k \in (i + 1)..(j - 1) : s[k] \notin {"<", ">"}

HasArticle(s) == StartsWith(s, <<"a", " ">>) \/ StartsWith(s, <<"a", "n", " ">>)

\* C6 as stated: normalising a normalised name changes nothing.
C6_NormalizeIdempotent ==
    Len(norm) = 2 => norm[2] = norm[1]

\* C6 amended: a normalised name has none of & ; [ ], and normalising it again
\* changes nothing when it has no <...> tag and no leading article left.
C6_IdempotentOnceClean ==
    /\ Len(norm) >= 1 => \A i \in 1..Len(norm[1]) : norm[1][i] \notin {"&", ";", "[", "]"}
    /\ (Len(norm) = 2 /\ ~HasTag(norm[1]) /\ ~HasArticle(norm[1])) => norm[2] = norm[1]

\* `a &x` is normalised to `x`, and again to `x`.
C6_Witness ==
    /\ raw = <<"a", " ", "&", "x">>
    /\ norm = <<(<<"x">>), (<<"x">>)>>

\* names goes with ids, item by item: the chemical's name for a key of the
\* chemical table, the id itself for any other id.
NamesFollow(names, ids) ==
    /\ Len(names) = Len(ids)
    /\ \A i \in 1..Len(ids) :
        IF \E k \in 1..Len(chems) : chems[k].key = ids[i]
        THEN \E k \in 1..Len(chems) :
                chems[k].key = ids[i] /\ names[i] = chems[k].val.name
        ELSE names[i] = ids[i]

\* C7: in every record of the reaction table reactant_names goes with
\* reactant_ids and product_names with product_ids, item by item.
C7_NamesFollowIds ==
    \A k \in 1..Len(rxns) :
        /\ NamesFollow(rxns[k].val.reactant_names, rxns[k].val.reactant_ids)
        /\ NamesFollow(rxns[k].val.product_names, rxns[k].val.product_ids)

\* A reaction of a foreign id, then a chemical of the table, to a foreign id.
C7_Witness ==
    /\ Len(chems) = 1 /\ chems[1].key = "c1" /\ chems[1].val.name = "link-name"
    /\ Len(rxns) = 1
    /\ rxns[1].val.reactant_ids = <<"ext", "c1">>
    /\ rxns[1].val.reactant_names = <<"ext", "link-name">>

\* C8: once the line is loaded, the id of a line whose second column is empty
\* or white space is no key of the reaction-link table, and no entry of the
\* table has an empty list of codes or an empty code.
C8_NoBlankCodes ==
    pc = "loaded" =>
        /\ LET entries == Split(rlLine)
           IN (Len(entries) >= 2 /\ Strip(entries[2]) = <<>>) =>
                  Strip(entries[1]) \notin Keys(rxn_links)
        /\ \A k \in 1..Len(rxn_links) :
            /\ rxn_links[k].val # <<>>
            /\ \A i \in 1..Len(rxn_links[k].val) : rxn_links[k].val[i] # <<>>

\* The line `x<TAB>`, without a newline: x is stored with one empty code.
C8_Witness ==
    /\ pc = "loaded"
    /\ rlLine = <<"x", "\t">>
    /\ rxn_links = <<[key |-> <<"x">>, val |-> <<(<<>>)>>]>>
====
